---- MODULE Spec2Model ----
(***************************************************************************)
(* ESPSensor: the validity-aware moving average (MovingAverage.h), the     *)
(* sensor base class and the three drivers (SensorBase.h, SHT30Sensor.h,   *)
(* HC_SR04Sensor.h, PHSensor.h) and the cooperative loop (main.cpp).       *)
(*                                                                         *)
(* Numbers.  A float is modelled as a fixed-point integer in hundredths    *)
(* (20.00 degrees is 2000, pH 7.00 is 700, 38.0 cm is 3800); a division    *)
(* truncates toward zero, as C++ does for an integer T.  Rounding of the   *)
(* binary float format is not modelled.                                    *)
(***************************************************************************)
EXTENDS Integers, Sequences, FiniteSets, TLC

VARIABLES
    ma,      \* SpecFilter: the MovingAverage<T, SIZE> object under test
    scen,    \* SpecFilter: calls made on a 15-slot filter, [adds, fails]
    ref,     \* SpecFilter (reference): the last SIZE samples handed to ma,
             \* oldest first, as [ok, v]
    evicted, \* SpecFilter (history): <<[ok, v]>>, the slot under the cursor
             \* when the last add() or addFailure() was entered; <<>> after
             \* construction and reset()
    wiped,   \* SpecFilter (history): validCount as the last reset() found
             \* it, -1 if reset() has not been called
    wdt,     \* SpecWatchdog: [at, elapsed, driver], the position in loop(),
             \* the milliseconds since esp_task_wdt_reset() and the driver
             \* compiled in
    drv,     \* SpecDriver: the driver object under test
    now,     \* the millisecond counter millis() returns
    call,    \* SpecDriver (history): the last step, [op, ok, in]: what was
             \* called, what it returned, and what the transducer gave it:
             \* <<passed>> for the probe of begin(), <<temp, humidity>> for
             \* the SHT30 and <<duration>> for the echo of an initialized
             \* read() (<<>> for the other calls)
    sinceOk, \* SpecDriver (history): time since the last read() that
             \* returned ok, -1 if none, saturating at MaxAge + 1
    pc,                 \* Spec: "setup" before setup() has run, then "loop"
    env,                \* Spec: the surroundings explored, see Spec
    enabled,            \* Spec: the drivers compiled in (ENABLE_* of config.h)
    sensors,            \* Spec: the global driver objects, by kind
    wifi,               \* Spec: WiFi.status() == WL_CONNECTED
    mqtt,               \* Spec: mqttClient.connected()
    lastSensorRead,
    lastSensorPublish,
    lastHealthMsg,
    lastWiFiAttempt,
    lastMQTTAttempt,
    mqttReconnectDelay,
    fired,    \* Spec (history): the jobs the last pass of loop() ran
    conn,     \* Spec (history): [wifi, mqtt], the connectivity the jobs of
              \* the last pass of loop() found
    crossed,  \* Spec (history): the channels whose gate went from false to
              \* true in a read since the publish job before the last one
              \* fired (since the last one, if the last pass did not fire it)
    firings,  \* Spec (history): the outcomes of the last MaxFirings firings of
              \* the publish job, oldest first: "sent" or "skipped"
    sent,     \* Spec (history): the messages handed to mqttClient.publish
              \* by the last pass of loop(), in order
    attempts, \* Spec (history): per channel, the outcomes of the last
              \* Window calls of read(), oldest first
    cadence   \* Spec (history): per periodic job, in passes of loop(), that
              \* is in real time: since, the time since the job's time
              \* stamp was set (since boot before its first firing); gap,
              \* that time as its last firing found it (-1 before); prev,
              \* the time stamp its last firing replaced (-1 before)

filterVars == <<ma, scen, ref, evicted, wiped>>

watchdogVars == <<wdt>>

driverVars == <<drv, call, sinceOk>>

firmwareVars ==
    <<pc, env, enabled, sensors, wifi, mqtt, lastSensorRead, lastSensorPublish,
      lastHealthMsg, lastWiFiAttempt, lastMQTTAttempt, mqttReconnectDelay,
      fired, conn, crossed, firings, sent, attempts, cadence>>

vars == <<filterVars, driverVars, firmwareVars, watchdogVars, now>>

(***************************************************************************)
(* Bounds and program constants                                            *)
(***************************************************************************)

\* Window size of the small filter instantiation that is explored with
\* arbitrary call sequences.
FilterSize == 3

\* config.h: the window of the temperature and humidity filters; the size
\* of the instantiation explored with runs of add followed by addFailure.
TEMP_HUMIDITY_WINDOW == 15

\* Sample values handed to add() in SpecFilter (an integer T).
FilterValues == {-3, 2, 7}

(***************************************************************************)
(* MovingAverage<T, SIZE>                                                  *)
(***************************************************************************)

\* T's division: C++ truncates toward zero.
DivT(a, b) == IF a >= 0 THEN a \div b ELSE -((-a) \div b)

\* The constructor: all slots 0 and invalid, cursor, counts and sum 0.
MovingAverage(SIZE) ==
    [buffer      |-> [i \in 0..(SIZE - 1) |-> 0],
     validBuffer |-> [i \in 0..(SIZE - 1) |-> FALSE],
     index       |-> 0,
     count       |-> 0,
     sum         |-> 0,
     validCount  |-> 0]

\* The template parameter SIZE of a filter object.
SizeOf(f) == Cardinality(DOMAIN f.buffer)

\* addReading without the eviction of the slot under the cursor.
addReading_NoEvict(f, value, isValid) ==
    LET SIZE == SizeOf(f)
    IN  [buffer      |-> [f.buffer EXCEPT ![f.index] = IF isValid THEN value ELSE 0],
         validBuffer |-> [f.validBuffer EXCEPT ![f.index] = isValid],
         index       |-> (f.index + 1) % SIZE,
         count       |-> IF f.count < SIZE THEN f.count + 1 ELSE f.count,
         sum         |-> IF isValid THEN f.sum + value ELSE f.sum,
         validCount  |-> IF isValid THEN f.validCount + 1 ELSE f.validCount]

\* addReading counting every call, without saturating count at SIZE.
addReading_NoSaturate(f, value, isValid) ==
    LET SIZE    == SizeOf(f)
        evict   == f.validBuffer[f.index]
        sum1    == IF evict THEN f.sum - f.buffer[f.index] ELSE f.sum
        vcount1 == IF evict THEN f.validCount - 1 ELSE f.validCount
    IN  [buffer      |-> [f.buffer EXCEPT ![f.index] = IF isValid THEN value ELSE 0],
         validBuffer |-> [f.validBuffer EXCEPT ![f.index] = isValid],
         index       |-> (f.index + 1) % SIZE,
         count       |-> f.count + 1,
         sum         |-> IF isValid THEN sum1 + value ELSE sum1,
         validCount  |-> IF isValid THEN vcount1 + 1 ELSE vcount1]

\* addReading that overwrites the slot under the cursor and leaves the
\* cursor where it is: the sample evicted is the newest, not the oldest.
addReading_NoAdvance(f, value, isValid) ==
    LET SIZE    == SizeOf(f)
        evict   == f.validBuffer[f.index]
        sum1    == IF evict THEN f.sum - f.buffer[f.index] ELSE f.sum
        vcount1 == IF evict THEN f.validCount - 1 ELSE f.validCount
    IN  [buffer      |-> [f.buffer EXCEPT ![f.index] = IF isValid THEN value ELSE 0],
         validBuffer |-> [f.validBuffer EXCEPT ![f.index] = isValid],
         index       |-> IF f.count < SIZE THEN (f.index + 1) % SIZE ELSE f.index,
         count       |-> IF f.count < SIZE THEN f.count + 1 ELSE f.count,
         sum         |-> IF isValid THEN sum1 + value ELSE sum1,
         validCount  |-> IF isValid THEN vcount1 + 1 ELSE vcount1]

\* addReading that writes the new sample first and then evicts the slot
\* under the cursor, which by then holds the new sample.
addReading_EvictAfterWrite(f, value, isValid) ==
    LET SIZE    == SizeOf(f)
        written == IF isValid THEN value ELSE 0
        sum1    == IF isValid THEN f.sum - written ELSE f.sum
        vcount1 == IF isValid THEN f.validCount - 1 ELSE f.validCount
    IN  [buffer      |-> [f.buffer EXCEPT ![f.index] = written],
         validBuffer |-> [f.validBuffer EXCEPT ![f.index] = isValid],
         index       |-> (f.index + 1) % SIZE,
         count       |-> IF f.count < SIZE THEN f.count + 1 ELSE f.count,
         sum         |-> IF isValid THEN sum1 + value ELSE sum1,
         validCount  |-> IF isValid THEN vcount1 + 1 ELSE vcount1]

addReading(f, value, isValid) ==
    LET SIZE    == SizeOf(f)
        evict   == f.validBuffer[f.index]
        sum1    == IF evict THEN f.sum - f.buffer[f.index] ELSE f.sum
        vcount1 == IF evict THEN f.validCount - 1 ELSE f.validCount
    IN  [buffer      |-> [f.buffer EXCEPT ![f.index] = IF isValid THEN value ELSE 0],
         validBuffer |-> [f.validBuffer EXCEPT ![f.index] = isValid],
         index       |-> (f.index + 1) % SIZE,
         count       |-> IF f.count < SIZE THEN f.count + 1 ELSE f.count,
         sum         |-> IF isValid THEN sum1 + value ELSE sum1,
         validCount  |-> IF isValid THEN vcount1 + 1 ELSE vcount1]

add(f, value) == addReading(f, value, TRUE)

addFailure(f) == addReading(f, 0, FALSE)

\* getAverage dividing by the total count instead of the valid count.
getAverage_ByCount(f) == IF f.validCount = 0 THEN 0 ELSE DivT(f.sum, f.count)

\* getAverage rounding toward minus infinity instead of toward zero.
getAverage_Floor(f) == IF f.validCount = 0 THEN 0 ELSE f.sum \div f.validCount

getAverage(f) == IF f.validCount = 0 THEN 0 ELSE DivT(f.sum, f.validCount)

\* isFull with > in place of >=.
isFull_Strict(f) == f.count > SizeOf(f)

isFull(f) == f.count >= SizeOf(f)

\* reset that leaves sum as it is.
reset_KeepSum(f) ==
    [buffer      |-> [i \in DOMAIN f.buffer |-> 0],
     validBuffer |-> [i \in DOMAIN f.buffer |-> FALSE],
     index       |-> 0,
     count       |-> 0,
     sum         |-> f.sum,
     validCount  |-> 0]

reset(f) ==
    [buffer      |-> [i \in DOMAIN f.buffer |-> 0],
     validBuffer |-> [i \in DOMAIN f.buffer |-> FALSE],
     index       |-> 0,
     count       |-> 0,
     sum         |-> 0,
     validCount  |-> 0]

getCount(f) == f.count

getValidCount(f) == f.validCount

\* hasValidMajority with >= in place of >.
hasValidMajority_AtLeastHalf(f) ==
    IF f.count = 0 THEN FALSE ELSE f.validCount >= (f.count \div 2)

hasValidMajority(f) ==
    IF f.count = 0 THEN FALSE ELSE f.validCount > (f.count \div 2)

(***************************************************************************)
(* SensorBase                                                              *)
(*                                                                         *)
(* A driver object is a record.  movingAverage is the pointer member: <<>> *)
(* is nullptr and <<f>> points to the filter f.  calls is a history        *)
(* variable: for each filter the driver owns, the add/addFailure calls     *)
(* made on it by the read() that ran last.                                 *)
(***************************************************************************)

\* Window of the drivers' filters: MovingAverage<float, 15> in SensorBase.h
\* and TEMP_HUMIDITY_WINDOW in SHT30Sensor.h, scaled down.
Window == 3

\* Width of the millisecond counter (unsigned long), scaled down.
ClockBits == 2

ClockMod == 2 ^ ClockBits

\* Largest maxAgeMs handed to isDataFresh.
MaxAge == 1

\* config.h: the windows configured for the water level and the pH.
WATER_LEVEL_WINDOW == 15
PH_WINDOW == 60

\* SensorBase.h: the SIZE of the filter the base class allocates.
DefaultWindow == 15

\* A window of config.h at the scale of the model, where Window slots stand
\* for the DefaultWindow slots of the base class.
Scaled(n) == (n * Window) \div DefaultWindow

\* Unsigned subtraction of two counter values.
\* USub taking a counter that reads less than the time stamp, after a
\* rollover, for no time elapsed.
USub_NoWrap(a, b) == IF a >= b THEN a - b ELSE 0

USub(a, b) == (a - b + ClockMod) % ClockMod

SensorBase(kind, enableAvg, owned) ==
    [kind                   |-> kind,
     initialized            |-> FALSE,
     lastReadSuccess        |-> FALSE,
     lastSuccessfulReadTime |-> 0,
     movingAverage          |-> IF enableAvg THEN <<MovingAverage(Scaled(DefaultWindow))>>
                                                 ELSE <<>>,
     useMovingAverage       |-> enableAvg,
     calls                  |-> [n \in owned |-> <<>>]]

\* Entry of read(): nothing has been recorded by this call yet.
EnterRead(d) == [d EXCEPT !.calls = [n \in DOMAIN d.calls |-> <<>>]]

addToAverage(d, value) ==
    IF d.useMovingAverage /\ d.movingAverage # <<>>
    THEN [d EXCEPT !.movingAverage = <<add(d.movingAverage[1], value)>>,
                   !.calls["movingAverage"] = Append(@, "add")]
    ELSE d

addFailureToAverage(d) ==
    IF d.useMovingAverage /\ d.movingAverage # <<>>
    THEN [d EXCEPT !.movingAverage = <<addFailure(d.movingAverage[1])>>,
                   !.calls["movingAverage"] = Append(@, "addFailure")]
    ELSE d

SensorBase_getAverage(d, defaultValue) ==
    IF d.useMovingAverage /\ d.movingAverage # <<>>
    THEN getAverage(d.movingAverage[1])
    ELSE defaultValue

SensorBase_hasValidMajority(d) ==
    IF d.useMovingAverage /\ d.movingAverage # <<>>
    THEN hasValidMajority(d.movingAverage[1])
    ELSE d.lastReadSuccess

isLastReadSuccess(d) == d.lastReadSuccess

markSuccessfulRead(d, millis) ==
    [d EXCEPT !.lastReadSuccess = TRUE, !.lastSuccessfulReadTime = millis]

\* markFailedRead taking the time stamp back by one millisecond.
markFailedRead_Regress(d) ==
    [d EXCEPT !.lastReadSuccess = FALSE,
              !.lastSuccessfulReadTime = (@ + ClockMod - 1) % ClockMod]

markFailedRead(d) == [d EXCEPT !.lastReadSuccess = FALSE]

\* isDataFresh without the test for a counter that has rolled over.
isDataFresh_NoRollover(d, maxAgeMs, millis) ==
    IF d.lastSuccessfulReadTime = 0 THEN FALSE
    ELSE USub(millis, d.lastSuccessfulReadTime) <= maxAgeMs

isDataFresh(d, maxAgeMs, millis) ==
    IF d.lastSuccessfulReadTime = 0 THEN FALSE
    ELSE IF millis < d.lastSuccessfulReadTime THEN FALSE
    ELSE USub(millis, d.lastSuccessfulReadTime) <= maxAgeMs

getTimeSinceLastSuccess(d, millis) ==
    IF d.lastSuccessfulReadTime = 0 THEN 0
    ELSE IF millis < d.lastSuccessfulReadTime THEN 0
    ELSE USub(millis, d.lastSuccessfulReadTime)

(***************************************************************************)
(* HC_SR04Sensor.  Distances are hundredths of a millimetre, levels        *)
(* hundredths of a centimetre; the input of a measurement is the echo      *)
(* duration pulseIn returns, in microseconds (0 on timeout).               *)
(***************************************************************************)

CONTAINER_HEIGHT_CM == 3800
MIN_WATER_LEVEL_CM == 200
MAX_WATER_LEVEL_CM == 3500

measureRawDistance(duration) ==
    IF duration = 0 THEN -100 ELSE DivT(duration * 343, 20) \* duration * 0.343 / 2.0

\* convertToWaterLevel returning the distance instead of the level.
convertToWaterLevel_Distance(distanceMm) ==
    IF distanceMm < 0 THEN -100 ELSE DivT(distanceMm, 10)

convertToWaterLevel(distanceMm) ==
    IF distanceMm < 0 THEN -100
    ELSE CONTAINER_HEIGHT_CM - DivT(distanceMm, 10)

HC_SR04Sensor ==
    [f \in DOMAIN SensorBase("HC-SR04", TRUE, {"movingAverage"})
            \cup {"currentWaterLevel", "lastRawDistance"} |->
        IF f \in {"currentWaterLevel", "lastRawDistance"} THEN 0
        ELSE SensorBase("HC-SR04", TRUE, {"movingAverage"})[f]]

\* begin(): the test measurement only logs; initialized is set on every path.
\* HC_begin giving up when the test reading fails.
HC_begin_ProbeGated(d, duration) ==
    IF measureRawDistance(duration) < 0
    THEN [d |-> d, ok |-> FALSE]
    ELSE [d |-> [d EXCEPT !.initialized = TRUE], ok |-> TRUE]

HC_begin(d, duration) ==
    [d |-> [d EXCEPT !.initialized = TRUE], ok |-> TRUE]

\* HC_read without the check against MAX_WATER_LEVEL_CM.
HC_read_NoUpperCheck(d0, duration) ==
    LET d == EnterRead(d0) IN
    IF ~d.initialized
    THEN [d |-> markFailedRead(d), ok |-> FALSE]
    ELSE
    LET rawDistance == measureRawDistance(duration)
        d1 == [d EXCEPT !.lastRawDistance = rawDistance]
    IN  IF rawDistance < 0
        THEN [d  |-> [addFailureToAverage(d1) EXCEPT !.lastReadSuccess = FALSE],
              ok |-> FALSE]
        ELSE
        LET waterLevel == convertToWaterLevel(rawDistance) IN
        IF waterLevel < MIN_WATER_LEVEL_CM
        THEN [d  |-> [addFailureToAverage(d1) EXCEPT !.lastReadSuccess = FALSE],
              ok |-> FALSE]
        ELSE
        LET d2 == addToAverage(d1, waterLevel)
        IN  [d  |-> [d2 EXCEPT !.currentWaterLevel = SensorBase_getAverage(d2, waterLevel),
                               !.lastReadSuccess = TRUE],
             ok |-> TRUE]

HC_read(d0, duration) ==
    LET d == EnterRead(d0) IN
    IF ~d.initialized
    THEN [d |-> markFailedRead(d), ok |-> FALSE]
    ELSE
    LET rawDistance == measureRawDistance(duration)
        d1 == [d EXCEPT !.lastRawDistance = rawDistance]
    IN  IF rawDistance < 0
        THEN [d  |-> [addFailureToAverage(d1) EXCEPT !.lastReadSuccess = FALSE],
              ok |-> FALSE]
        ELSE
        LET waterLevel == convertToWaterLevel(rawDistance) IN
        IF waterLevel < MIN_WATER_LEVEL_CM \/ waterLevel > MAX_WATER_LEVEL_CM
        THEN [d  |-> [addFailureToAverage(d1) EXCEPT !.lastReadSuccess = FALSE],
              ok |-> FALSE]
        ELSE
        LET d2 == addToAverage(d1, waterLevel)
        IN  [d  |-> [d2 EXCEPT !.currentWaterLevel = SensorBase_getAverage(d2, waterLevel),
                               !.lastReadSuccess = TRUE],
             ok |-> TRUE]

getWaterLevel(d) == d.currentWaterLevel

(***************************************************************************)
(* PHSensor.  Voltages are hundredths of a millivolt, pH values hundredths *)
(* of a pH unit; the input of a measurement is the sequence of raw ADC     *)
(* samples analogRead returns.                                             *)
(***************************************************************************)

PH_MIN == 0
PH_MAX == 1400
PH_CAL_MID == 142000
PH_CAL_LOW == 188000
PH_CAL_HIGH == 95500
ESP32_ADC_OFFSET_MV == 13000
PH_VOLTAGE_AVERAGING == 20

\* readPHFromVoltage with the slope of the acidic segment on both sides.
readPHFromVoltage_OneSegment(voltage_mV) ==
    700 - DivT(300 * (voltage_mV - PH_CAL_MID), PH_CAL_LOW - PH_CAL_MID)

readPHFromVoltage(voltage_mV) ==
    IF voltage_mV > PH_CAL_MID
    THEN 700 - DivT(300 * (voltage_mV - PH_CAL_MID), PH_CAL_LOW - PH_CAL_MID)
    ELSE 700 - DivT(300 * (voltage_mV - PH_CAL_MID), PH_CAL_MID - PH_CAL_HIGH)

RECURSIVE SumVoltage(_, _)
\* The loop of readPH over the first i samples: the sum of the compensated
\* voltages rawADC / 4095.0 * 3300.0 + ESP32_ADC_OFFSET_MV.
SumVoltage(samples, i) ==
    IF i = 0 THEN 0
    ELSE SumVoltage(samples, i - 1)
            + DivT(samples[i] * 330000, 4095) + ESP32_ADC_OFFSET_MV

readPH(samples) ==
    readPHFromVoltage(DivT(SumVoltage(samples, PH_VOLTAGE_AVERAGING),
                           PH_VOLTAGE_AVERAGING))

PHSensor ==
    [f \in DOMAIN SensorBase("pH", TRUE, {"movingAverage"}) \cup {"currentPH"} |->
        IF f = "currentPH" THEN 700
        ELSE SensorBase("pH", TRUE, {"movingAverage"})[f]]

\* begin(): the raw test and the test pH only log; initialized is set on
\* every path.
PH_begin(d, samples) ==
    [d |-> [d EXCEPT !.initialized = TRUE], ok |-> TRUE]

\* PH_read caching the sample instead of the average.
PH_read_CacheRaw(d0, samples) ==
    LET d == EnterRead(d0) IN
    IF ~d.initialized
    THEN [d  |-> [addFailureToAverage(d) EXCEPT !.lastReadSuccess = FALSE],
          ok |-> FALSE]
    ELSE
    LET ph == readPH(samples) IN
    IF ph < PH_MIN \/ ph > PH_MAX
    THEN [d  |-> [addFailureToAverage(d) EXCEPT !.lastReadSuccess = FALSE],
          ok |-> FALSE]
    ELSE
    LET d2 == addToAverage(d, ph)
    IN  [d  |-> [d2 EXCEPT !.currentPH = ph, !.lastReadSuccess = TRUE],
         ok |-> TRUE]

\* PH_read adding the pH to the filter without the range check.
PH_read_NoRangeCheck(d0, samples) ==
    LET d == EnterRead(d0) IN
    IF ~d.initialized
    THEN [d  |-> [addFailureToAverage(d) EXCEPT !.lastReadSuccess = FALSE],
          ok |-> FALSE]
    ELSE
    LET ph == readPH(samples)
        d2 == addToAverage(d, ph)
    IN  [d  |-> [d2 EXCEPT !.currentPH = SensorBase_getAverage(d2, ph),
                           !.lastReadSuccess = TRUE],
         ok |-> TRUE]

PH_read(d0, samples) ==
    LET d == EnterRead(d0) IN
    IF ~d.initialized
    THEN [d  |-> [addFailureToAverage(d) EXCEPT !.lastReadSuccess = FALSE],
          ok |-> FALSE]
    ELSE
    LET ph == readPH(samples) IN
    IF ph < PH_MIN \/ ph > PH_MAX
    THEN [d  |-> [addFailureToAverage(d) EXCEPT !.lastReadSuccess = FALSE],
          ok |-> FALSE]
    ELSE
    LET d2 == addToAverage(d, ph)
    IN  [d  |-> [d2 EXCEPT !.currentPH = SensorBase_getAverage(d2, ph),
                           !.lastReadSuccess = TRUE],
         ok |-> TRUE]

getPH(d) == d.currentPH

(***************************************************************************)
(* SHT30Sensor.  A value the device library returns is [nan, v]: nan says  *)
(* that it is NaN, v is the number (hundredths) otherwise.  A comparison   *)
(* with NaN is false, as in IEEE 754.                                      *)
(***************************************************************************)

TEMP_MIN == 0
TEMP_MAX == 5000
HUMIDITY_MIN == 0
HUMIDITY_MAX == 10000

NaN == [nan |-> TRUE, v |-> 0]

Num(x) == [nan |-> FALSE, v |-> x]

isnan(x) == x.nan

FLess(x, c) == ~x.nan /\ x.v < c

FGreater(x, c) == ~x.nan /\ x.v > c

SHT30Sensor ==
    [f \in DOMAIN SensorBase("SHT30", FALSE, {"tempAvg", "humidityAvg"})
            \cup {"tempAvg", "humidityAvg", "currentTemp", "currentHumidity"} |->
        IF f \in {"tempAvg", "humidityAvg"}
        THEN MovingAverage(Scaled(TEMP_HUMIDITY_WINDOW))
        ELSE IF f \in {"currentTemp", "currentHumidity"} THEN 0
        ELSE SensorBase("SHT30", FALSE, {"tempAvg", "humidityAvg"})[f]]

\* begin(): opened says whether sht.begin(SHT30_I2C_ADDRESS) succeeded.
SHT30_begin(d, opened) ==
    IF ~opened
    THEN [d |-> [d EXCEPT !.initialized = FALSE], ok |-> FALSE]
    ELSE [d |-> [d EXCEPT !.initialized = TRUE], ok |-> TRUE]

\* SHT30_fail leaving lastReadSuccess as it is.
SHT30_fail_KeepFlag(d) ==
    [d EXCEPT !.tempAvg = addFailure(@),
              !.humidityAvg = addFailure(@),
              !.calls["tempAvg"] = Append(@, "addFailure"),
              !.calls["humidityAvg"] = Append(@, "addFailure")]

\* SHT30_fail recording the failure on the temperature filter only.
SHT30_fail_TempOnly(d) ==
    [d EXCEPT !.tempAvg = addFailure(@),
              !.calls["tempAvg"] = Append(@, "addFailure"),
              !.lastReadSuccess = FALSE]

\* tempAvg.addFailure(); humidityAvg.addFailure(); lastReadSuccess = false.
SHT30_fail(d) ==
    [d EXCEPT !.tempAvg = addFailure(@),
              !.humidityAvg = addFailure(@),
              !.calls["tempAvg"] = Append(@, "addFailure"),
              !.calls["humidityAvg"] = Append(@, "addFailure"),
              !.lastReadSuccess = FALSE]

\* SHT30_read recording a humidity out of range on the humidity filter only.
SHT30_read_HumidityOnly(d0, temp, humidity) ==
    LET d == EnterRead(d0) IN
    IF ~d.initialized THEN [d |-> SHT30_fail(d), ok |-> FALSE]
    ELSE IF isnan(temp) \/ isnan(humidity) THEN [d |-> SHT30_fail(d), ok |-> FALSE]
    ELSE IF FLess(temp, TEMP_MIN) \/ FGreater(temp, TEMP_MAX)
    THEN [d |-> SHT30_fail(d), ok |-> FALSE]
    ELSE IF FLess(humidity, HUMIDITY_MIN) \/ FGreater(humidity, HUMIDITY_MAX)
    THEN [d  |-> [d EXCEPT !.tempAvg = addReading(@, temp.v, TRUE),
                           !.humidityAvg = addFailure(@),
                           !.calls["tempAvg"] = Append(@, "add"),
                           !.calls["humidityAvg"] = Append(@, "addFailure"),
                           !.lastReadSuccess = FALSE],
          ok |-> FALSE]
    ELSE
    LET tA == addReading(d.tempAvg, temp.v, TRUE)
        hA == addReading(d.humidityAvg, humidity.v, TRUE)
    IN  [d  |-> [d EXCEPT !.tempAvg = tA,
                          !.humidityAvg = hA,
                          !.calls["tempAvg"] = Append(@, "add"),
                          !.calls["humidityAvg"] = Append(@, "add"),
                          !.currentTemp = getAverage(tA),
                          !.currentHumidity = getAverage(hA),
                          !.lastReadSuccess = TRUE],
         ok |-> TRUE]

SHT30_read(d0, temp, humidity) ==
    LET d == EnterRead(d0) IN
    IF ~d.initialized THEN [d |-> SHT30_fail(d), ok |-> FALSE]
    ELSE IF isnan(temp) \/ isnan(humidity) THEN [d |-> SHT30_fail(d), ok |-> FALSE]
    ELSE IF FLess(temp, TEMP_MIN) \/ FGreater(temp, TEMP_MAX)
    THEN [d |-> SHT30_fail(d), ok |-> FALSE]
    ELSE IF FLess(humidity, HUMIDITY_MIN) \/ FGreater(humidity, HUMIDITY_MAX)
    THEN [d |-> SHT30_fail(d), ok |-> FALSE]
    ELSE
    LET tA == addReading(d.tempAvg, temp.v, TRUE)
        hA == addReading(d.humidityAvg, humidity.v, TRUE)
    IN  [d  |-> [d EXCEPT !.tempAvg = tA,
                          !.humidityAvg = hA,
                          !.calls["tempAvg"] = Append(@, "add"),
                          !.calls["humidityAvg"] = Append(@, "add"),
                          !.currentTemp = getAverage(tA),
                          !.currentHumidity = getAverage(hA),
                          !.lastReadSuccess = TRUE],
         ok |-> TRUE]

getTemperature(d) == d.currentTemp

getHumidity(d) == d.currentHumidity

hasValidTemperatureMajority(d) == hasValidMajority(d.tempAvg)

hasValidHumidityMajority(d) == hasValidMajority(d.humidityAvg)

(***************************************************************************)
(* The transducer outcomes explored                                        *)
(***************************************************************************)

\* Echo durations (microseconds): timeout; 5 mm; 30 mm; 100 mm; 377 mm.
HcDurations == {0, 29, 175, 583, 2200}

\* Raw ADC values: 0.13 V; 1.42 V (pH 7); 1.65 V (pH 5.5); 3.43 V.
PhRaw == {0, 1601, 1886, 4095}

PhSamples == {[i \in 1..PH_VOLTAGE_AVERAGING |-> r] : r \in PhRaw}

ShtTemps == {NaN, Num(-100), Num(2000), Num(2500), Num(5100)}

ShtHumidities == {NaN, Num(5000), Num(10100)}

(***************************************************************************)
(* main.cpp.  The unit of time is one pass of loop(); the intervals of      *)
(* config.h are scaled down to a few units, keeping their order.           *)
(***************************************************************************)

SENSOR_READ_INTERVAL == 1
SENSOR_PUBLISH_INTERVAL == 2
HEALTH_MSG_INTERVAL == 3
WIFI_RECONNECT_INTERVAL == 2
MQTT_RECONNECT_INITIAL_DELAY == 1
MQTT_RECONNECT_MAX_DELAY == 3

Kinds == {"SHT30", "HC-SR04", "pH"}

\* The builds explored: the one config.h ships (pH only) and the builds
\* with one other driver enabled.  The drivers share no state.
Builds == {{"pH"}, {"SHT30"}, {"HC-SR04"}}

Min(a, b) == IF a <= b THEN a ELSE b

\* String(value, decimals) at the resolution of the model (hundredths):
\* two decimals keep the value, one decimal rounds it half away from zero.
FormatValue(value, decimals) ==
    IF decimals >= 2 THEN value
    ELSE IF value >= 0 THEN ((value + 5) \div 10) * 10
    ELSE -(((-value) + 5) \div 10) * 10

\* reconnectWiFi(): connects says whether the attempt, if one is made, ends
\* with WL_CONNECTED.  Result: [wifi, lastWiFiAttempt].
reconnectWiFi(w, lastAttempt, currentMillis, connects) ==
    IF USub(currentMillis, lastAttempt) < WIFI_RECONNECT_INTERVAL
    THEN [wifi |-> w, lastWiFiAttempt |-> lastAttempt]
    ELSE [wifi |-> IF ~w THEN connects ELSE w, lastWiFiAttempt |-> currentMillis]

\* reconnectMQTT without the test of the WiFi link.
reconnectMQTT_NoLinkCheck(w, m, lastAttempt, delay, currentMillis, connected) ==
    LET same == [mqtt |-> m, lastMQTTAttempt |-> lastAttempt,
                 mqttReconnectDelay |-> delay]
    IN  IF USub(currentMillis, lastAttempt) < delay THEN same
        ELSE IF m THEN [same EXCEPT !.lastMQTTAttempt = currentMillis]
        ELSE IF connected
        THEN [mqtt |-> TRUE, lastMQTTAttempt |-> currentMillis,
              mqttReconnectDelay |-> MQTT_RECONNECT_INITIAL_DELAY]
        ELSE [mqtt |-> FALSE, lastMQTTAttempt |-> currentMillis,
              mqttReconnectDelay |-> Min(delay * 2, MQTT_RECONNECT_MAX_DELAY)]

\* reconnectMQTT doubling the delay without the cap.
reconnectMQTT_NoCap(w, m, lastAttempt, delay, currentMillis, connected) ==
    LET same == [mqtt |-> m, lastMQTTAttempt |-> lastAttempt,
                 mqttReconnectDelay |-> delay]
    IN  IF ~w THEN same
        ELSE IF USub(currentMillis, lastAttempt) < delay THEN same
        ELSE IF m THEN [same EXCEPT !.lastMQTTAttempt = currentMillis]
        ELSE IF connected
        THEN [mqtt |-> TRUE, lastMQTTAttempt |-> currentMillis,
              mqttReconnectDelay |-> MQTT_RECONNECT_INITIAL_DELAY]
        ELSE [mqtt |-> FALSE, lastMQTTAttempt |-> currentMillis,
              mqttReconnectDelay |-> delay * 2]

\* reconnectMQTT(): connected says whether mqttClient.connect succeeds, if
\* it is called.  Result: [mqtt, lastMQTTAttempt, mqttReconnectDelay].
reconnectMQTT(w, m, lastAttempt, delay, currentMillis, connected) ==
    LET same == [mqtt |-> m, lastMQTTAttempt |-> lastAttempt,
                 mqttReconnectDelay |-> delay]
    IN  IF ~w THEN same
        ELSE IF USub(currentMillis, lastAttempt) < delay THEN same
        ELSE IF m THEN [same EXCEPT !.lastMQTTAttempt = currentMillis]
        ELSE IF connected
        THEN [mqtt |-> TRUE, lastMQTTAttempt |-> currentMillis,
              mqttReconnectDelay |-> MQTT_RECONNECT_INITIAL_DELAY]
        ELSE [mqtt |-> FALSE, lastMQTTAttempt |-> currentMillis,
              mqttReconnectDelay |-> Min(delay * 2, MQTT_RECONNECT_MAX_DELAY)]

\* What the transducers return in one pass: [temp, humidity, duration,
\* samples], drawn from the sets tr.  A transducer that is not compiled in
\* returns nothing that is read.
Inputs(en, tr) ==
    [temp     : IF "SHT30" \in en THEN tr.temp ELSE {NaN},
     humidity : IF "SHT30" \in en THEN tr.humidity ELSE {NaN},
     duration : IF "HC-SR04" \in en THEN tr.duration ELSE {0},
     samples  : IF "pH" \in en THEN tr.samples
                ELSE {[i \in 1..PH_VOLTAGE_AVERAGING |-> 0]}]

\* One driver's begin() in initializeSensors(); opened is the outcome of the
\* SHT30 bus probe.
BeginOf(d, opened, in) ==
    IF d.kind = "SHT30" THEN SHT30_begin(d, opened)
    ELSE IF d.kind = "HC-SR04" THEN HC_begin(d, in.duration)
    ELSE PH_begin(d, in.samples)

ReadOf(d, in) ==
    IF d.kind = "SHT30" THEN SHT30_read(d, in.temp, in.humidity)
    ELSE IF d.kind = "HC-SR04" THEN HC_read(d, in.duration)
    ELSE PH_read(d, in.samples)

initializeSensors(ss, en, opened, in) ==
    [k \in Kinds |-> IF k \in en THEN BeginOf(ss[k], opened, in).d ELSE ss[k]]

\* readSensors(): read() of every enabled driver that is initialized.  The
\* result, by kind: whether read() was called, the driver after it, and
\* what it returned.
readSensors(ss, en, in) ==
    [k \in Kinds |->
        IF k \in en /\ ss[k].initialized
        THEN LET r == ReadOf(ss[k], in) IN [called |-> TRUE, d |-> r.d, ok |-> r.ok]
        ELSE [called |-> FALSE, d |-> ss[k], ok |-> FALSE]]

Message(deviceType, value, decimals) ==
    [deviceType |-> deviceType, value |-> FormatValue(value, decimals)]

\* publishSensorData publishing pH without asking hasValidMajority().
publishSensorData_NoGate(m, ss, en) ==
    IF ~m THEN <<>>
    ELSE IF "pH" \in en /\ ss["pH"].initialized
    THEN <<Message("pH", getPH(ss["pH"]), 2)>> ELSE <<>>

\* publishSensorData publishing pH only from a full window.
publishSensorData_FullWindow(m, ss, en) ==
    IF ~m THEN <<>>
    ELSE IF /\ "pH" \in en /\ ss["pH"].initialized
            /\ SensorBase_hasValidMajority(ss["pH"])
            /\ isFull(ss["pH"].movingAverage[1])
    THEN <<Message("pH", getPH(ss["pH"]), 2)>> ELSE <<>>

\* publishSensorData handing the pH message to the transport twice.
publishSensorData_Twice(m, ss, en) ==
    IF ~m THEN <<>>
    ELSE IF "pH" \in en /\ ss["pH"].initialized /\ SensorBase_hasValidMajority(ss["pH"])
    THEN <<Message("pH", getPH(ss["pH"]), 2), Message("pH", getPH(ss["pH"]), 2)>>
    ELSE <<>>

\* publishSensorData that does not look at the broker connection.
publishSensorData_Offline(m, ss, en) ==
    IF "pH" \in en /\ ss["pH"].initialized /\ SensorBase_hasValidMajority(ss["pH"])
    THEN <<Message("pH", getPH(ss["pH"]), 2)>> ELSE <<>>

\* The messages publishSensorData() hands to mqttClient.publish, in order.
publishSensorData(m, ss, en) ==
    IF ~m THEN <<>>
    ELSE
    LET sht == ss["SHT30"]
        hc  == ss["HC-SR04"]
        ph  == ss["pH"]
        t == IF "SHT30" \in en /\ sht.initialized /\ hasValidTemperatureMajority(sht)
             THEN <<Message("temperature", getTemperature(sht), 2)>> ELSE <<>>
        h == IF "SHT30" \in en /\ sht.initialized /\ hasValidHumidityMajority(sht)
             THEN <<Message("humidity", getHumidity(sht), 2)>> ELSE <<>>
        w == IF "HC-SR04" \in en /\ hc.initialized /\ SensorBase_hasValidMajority(hc)
             THEN <<Message("waterLevel", getWaterLevel(hc), 1)>> ELSE <<>>
        p == IF "pH" \in en /\ ph.initialized /\ SensorBase_hasValidMajority(ph)
             THEN <<Message("pH", getPH(ph), 2)>> ELSE <<>>
    IN  t \o h \o w \o p

\* publishHealthMessage reporting "ok" only for a pH channel whose gate holds.
publishHealthMessage_Gated(m, ss, en) ==
    IF ~m THEN <<>>
    ELSE <<[deviceType  |-> "health",
            temperature |-> "absent", humidity |-> "absent",
            waterLevel  |-> "absent",
            pH          |-> IF "pH" \in en
                            THEN (IF /\ ss["pH"].initialized
                                     /\ SensorBase_hasValidMajority(ss["pH"])
                                  THEN "ok" ELSE "error")
                            ELSE "absent"]>>

\* The message publishHealthMessage() hands to mqttClient.publish.
publishHealthMessage(m, ss, en) ==
    IF ~m THEN <<>>
    ELSE
    LET status(k) == IF ss[k].initialized THEN "ok" ELSE "error"
        na == "absent"
    IN  <<[deviceType  |-> "health",
           temperature |-> IF "SHT30" \in en THEN status("SHT30") ELSE na,
           humidity    |-> IF "SHT30" \in en THEN status("SHT30") ELSE na,
           waterLevel  |-> IF "HC-SR04" \in en THEN status("HC-SR04") ELSE na,
           pH          |-> IF "pH" \in en THEN status("pH") ELSE na]>>

(***************************************************************************)
(* Values of the variables a specification does not use                    *)
(***************************************************************************)

NoCall == [op |-> "none", ok |-> FALSE, in |-> <<>>]

DriverIdle == drv = <<>> /\ call = NoCall /\ sinceOk = -1

FilterIdle ==
    /\ ma = <<>> /\ scen = [adds |-> 0, fails |-> 0] /\ ref = <<>>
    /\ evicted = <<>> /\ wiped = -1

WatchdogIdle == wdt = [at |-> "off", elapsed |-> 0, driver |-> "none"]

FirmwareIdle ==
    /\ pc = "off" /\ env = "none" /\ enabled = {} /\ sensors = <<>>
    /\ wifi = FALSE /\ mqtt = FALSE
    /\ lastSensorRead = 0 /\ lastSensorPublish = 0 /\ lastHealthMsg = 0
    /\ lastWiFiAttempt = 0 /\ lastMQTTAttempt = 0
    /\ mqttReconnectDelay = 1
    /\ fired = {} /\ conn = [wifi |-> FALSE, mqtt |-> FALSE]
    /\ crossed = {} /\ firings = <<>>
    /\ sent = <<>> /\ attempts = <<>> /\ cadence = <<>>

(***************************************************************************)
(* SpecFilter: one filter object and its callers.  The small instantiation *)
(* (SIZE 1 and FilterSize) takes every sequence of add, addFailure and     *)
(* reset; the 15-slot instantiation takes runs of add(v) followed by runs  *)
(* of addFailure(), at most SIZE + 1 calls after construction or reset.    *)
(***************************************************************************)

FilterSizes == {1, FilterSize, TEMP_HUMIDITY_WINDOW}

\* The sequence a without its oldest entries beyond n.
LastN(a, n) == IF Len(a) > n THEN Tail(a) ELSE a

Large(f) == SizeOf(f) > FilterSize

\* The slot of filter f under the cursor: the one the next call evicts.
UnderCursor(f) == <<[ok |-> f.validBuffer[f.index], v |-> f.buffer[f.index]]>>

FilterInit ==
    /\ \E n \in FilterSizes : ma = MovingAverage(n)
    /\ scen = [adds |-> 0, fails |-> 0]
    /\ ref = <<>>
    /\ evicted = <<>>
    /\ wiped = -1
    /\ DriverIdle /\ FirmwareIdle /\ WatchdogIdle /\ now = 0

FilterAdd ==
    /\ Large(ma) => (scen.fails = 0 /\ scen.adds + scen.fails <= SizeOf(ma))
    /\ \E v \in (IF Large(ma) THEN {2} ELSE FilterValues) :
        /\ ma' = add(ma, v)
        /\ ref' = LastN(Append(ref, [ok |-> TRUE, v |-> v]), SizeOf(ma))
    /\ evicted' = UnderCursor(ma)
    /\ UNCHANGED wiped
    /\ scen' = IF Large(ma) THEN [scen EXCEPT !.adds = @ + 1] ELSE scen
    /\ UNCHANGED <<driverVars, firmwareVars, watchdogVars, now>>

FilterAddFailure ==
    /\ Large(ma) => scen.adds + scen.fails <= SizeOf(ma)
    /\ ma' = addFailure(ma)
    /\ ref' = LastN(Append(ref, [ok |-> FALSE, v |-> 0]), SizeOf(ma))
    /\ evicted' = UnderCursor(ma)
    /\ UNCHANGED wiped
    /\ scen' = IF Large(ma) THEN [scen EXCEPT !.fails = @ + 1] ELSE scen
    /\ UNCHANGED <<driverVars, firmwareVars, watchdogVars, now>>

FilterReset ==
    /\ ma' = reset(ma)
    /\ ref' = <<>>
    /\ evicted' = <<>>
    /\ wiped' = ma.validCount
    /\ scen' = [adds |-> 0, fails |-> 0]
    /\ UNCHANGED <<driverVars, firmwareVars, watchdogVars, now>>

FilterNext == FilterAdd \/ FilterAddFailure \/ FilterReset

SpecFilter == FilterInit /\ [][FilterNext]_vars

(***************************************************************************)
(* SpecDriver: one driver object and its callers.  begin() and read() are  *)
(* called in any order, with any outcome of the transducer, while the      *)
(* millisecond counter advances and wraps.                                 *)
(***************************************************************************)

\* The result [d, ok, in] of begin() on driver d, for every outcome of the
\* probe; in says whether the probe passed (the bus device opened, the test
\* echo arrived, the test pH was in range).
BeginResults(d) ==
    IF d.kind = "SHT30"
    THEN {LET r == SHT30_begin(d, o) IN [d |-> r.d, ok |-> r.ok, in |-> <<o>>] :
              o \in BOOLEAN}
    ELSE IF d.kind = "HC-SR04"
    THEN {LET r == HC_begin(d, t)
          IN  [d |-> r.d, ok |-> r.ok, in |-> <<measureRawDistance(t) >= 0>>] :
              t \in HcDurations}
    ELSE {LET r == PH_begin(d, s)
              testPH == readPH(s)
          IN  [d |-> r.d, ok |-> r.ok, in |-> <<testPH >= PH_MIN /\ testPH <= PH_MAX>>] :
              s \in PhSamples}

\* What the SHT30 returns to one read(): <<temp, humidity>>.
ShtInputs == {<<t, h>> : t \in ShtTemps, h \in ShtHumidities}

\* The result [d, ok, in] of read() on driver d, for every outcome of the
\* transducer.  A driver that is not initialized is not asked for values.
ReadResults(d) ==
    IF d.kind = "SHT30"
    THEN {LET r == SHT30_read(d, in[1], in[2])
          IN  [d |-> r.d, ok |-> r.ok, in |-> IF d.initialized THEN in ELSE <<>>] :
              in \in ShtInputs}
    ELSE IF d.kind = "HC-SR04"
    THEN {LET r == HC_read(d, t)
          IN  [d |-> r.d, ok |-> r.ok, in |-> IF d.initialized THEN <<t>> ELSE <<>>] :
              t \in HcDurations}
    ELSE {LET r == PH_read(d, x) IN [d |-> r.d, ok |-> r.ok, in |-> <<>>] :
              x \in PhSamples}

DriverInit ==
    /\ drv \in {SHT30Sensor, HC_SR04Sensor, PHSensor}
    /\ now = 0
    /\ call = NoCall
    /\ sinceOk = -1
    /\ FilterIdle /\ FirmwareIdle /\ WatchdogIdle

DriverBegin ==
    /\ \E r \in BeginResults(drv) :
        /\ drv' = r.d
        /\ call' = [op |-> "begin", ok |-> r.ok, in |-> r.in]
    /\ UNCHANGED <<now, sinceOk>>
    /\ UNCHANGED <<filterVars, firmwareVars, watchdogVars>>

DriverRead ==
    /\ \E r \in ReadResults(drv) :
        /\ drv' = r.d
        /\ call' = [op |-> "read", ok |-> r.ok, in |-> r.in]
        /\ sinceOk' = IF r.ok THEN 0 ELSE sinceOk
    /\ UNCHANGED now
    /\ UNCHANGED <<filterVars, firmwareVars, watchdogVars>>

\* One millisecond passes.
DriverTick ==
    /\ now' = (now + 1) % ClockMod
    /\ sinceOk' = IF sinceOk = -1 \/ sinceOk = MaxAge + 1 THEN sinceOk ELSE sinceOk + 1
    /\ call' = [op |-> "tick", ok |-> FALSE, in |-> <<>>]
    /\ UNCHANGED drv
    /\ UNCHANGED <<filterVars, firmwareVars, watchdogVars>>

DriverNext == DriverBegin \/ DriverRead \/ DriverTick

SpecDriver == DriverInit /\ [][DriverNext]_vars

(***************************************************************************)
(* Spec: the firmware.  The global constructors, setup(), then passes of   *)
(* loop(), while the link and the broker come and go.                      *)
(***************************************************************************)

Channels == {"temperature", "humidity", "waterLevel", "pH"}

KindOf(c) ==
    IF c \in {"temperature", "humidity"} THEN "SHT30"
    ELSE IF c = "waterLevel" THEN "HC-SR04" ELSE "pH"

\* The filter of a channel in the driver objects ss.
FilterOf(ss, c) ==
    IF c = "temperature" THEN ss["SHT30"].tempAvg
    ELSE IF c = "humidity" THEN ss["SHT30"].humidityAvg
    ELSE ss[KindOf(c)].movingAverage[1]

\* The sample of channel c that the transducer values in stand for.
SampleOf(c, in) ==
    IF c = "temperature" THEN in.temp.v
    ELSE IF c = "humidity" THEN in.humidity.v
    ELSE IF c = "waterLevel"
    THEN convertToWaterLevel(measureRawDistance(in.duration))
    ELSE readPH(in.samples)

\* attempts after one readSensors() with results rs: one more outcome for
\* every channel whose driver's read() was called, the oldest dropped
\* beyond Window.
Recorded(att, rs, in) ==
    [c \in Channels |->
        LET r == rs[KindOf(c)] IN
        IF r.called
        THEN LET a == Append(att[c], [ok |-> r.ok,
                                      v  |-> IF r.ok THEN SampleOf(c, in) ELSE 0])
             IN  IF Len(a) > Window THEN Tail(a) ELSE a
        ELSE att[c]]

\* Firings of the publish job that firings remembers.
MaxFirings == 2

Latest(h) == IF Len(h) > MaxFirings THEN Tail(h) ELSE h

\* The surroundings explored.  "steady": the link and the broker answer
\* every attempt and stay; the transducers return every outcome explored.
\* "outages": the link and the broker come and go at any time and any
\* attempt may fail; every transducer returns one in-range value.
Envs == {"steady", "outages"}

Answers(e) == IF e = "steady" THEN {TRUE} ELSE BOOLEAN

Transducers(e) ==
    IF e = "steady"
    THEN [temp |-> ShtTemps, humidity |-> ShtHumidities,
          duration |-> HcDurations, samples |-> PhSamples]
    ELSE [temp |-> {Num(2000)}, humidity |-> {Num(5000)},
          duration |-> {583},
          samples |-> {[i \in 1..PH_VOLTAGE_AVERAGING |-> 1601]}]

\* The periodic jobs of loop().
Jobs == {"read", "publish", "health"}

Init ==
    /\ pc = "setup"
    /\ env \in Envs
    /\ enabled \in Builds
    /\ sensors = [k \in Kinds |->
                    IF k = "SHT30" THEN SHT30Sensor
                    ELSE IF k = "HC-SR04" THEN HC_SR04Sensor ELSE PHSensor]
    /\ wifi = FALSE /\ mqtt = FALSE
    /\ lastSensorRead = 0 /\ lastSensorPublish = 0 /\ lastHealthMsg = 0
    /\ lastWiFiAttempt = 0 /\ lastMQTTAttempt = 0
    /\ mqttReconnectDelay = MQTT_RECONNECT_INITIAL_DELAY
    /\ fired = {}
    /\ conn = [wifi |-> FALSE, mqtt |-> FALSE]
    /\ crossed = {}
    /\ firings = <<>>
    /\ sent = <<>>
    /\ attempts = [c \in Channels |-> <<>>]
    /\ cadence = [j \in Jobs |-> [since |-> 0, gap |-> -1, prev |-> -1]]
    /\ now = 0
    /\ FilterIdle /\ DriverIdle /\ WatchdogIdle

\* setup(): setupWiFi waits for the link (took units of time), setupMQTT
\* makes the first broker attempt, initializeSensors calls every begin().
Setup ==
    /\ pc = "setup"
    /\ \E took \in 0..1, linked \in Answers(env), connected \in Answers(env),
          opened \in BOOLEAN, in \in Inputs(enabled, Transducers(env)) :
        LET t == (now + took) % ClockMod
            b == reconnectMQTT(linked, mqtt, lastMQTTAttempt, mqttReconnectDelay,
                               t, connected)
        IN  /\ now' = t
            /\ wifi' = linked
            /\ lastWiFiAttempt' = t
            /\ mqtt' = b.mqtt
            /\ lastMQTTAttempt' = b.lastMQTTAttempt
            /\ mqttReconnectDelay' = b.mqttReconnectDelay
            /\ sensors' = initializeSensors(sensors, enabled, opened, in)
            /\ cadence' = [j \in Jobs |-> [cadence[j] EXCEPT !.since = took]]
    /\ pc' = "loop"
    /\ UNCHANGED <<env, enabled, lastSensorRead, lastSensorPublish, lastHealthMsg,
                   fired, conn, crossed, firings, sent, attempts>>
    /\ UNCHANGED <<filterVars, driverVars, watchdogVars>>

\* Due with > in place of >=.
Due_Strict(currentMillis, last, interval) == USub(currentMillis, last) > interval

\* The test of a periodic job: currentMillis - last >= interval, unsigned.
Due(currentMillis, last, interval) == USub(currentMillis, last) >= interval

\* Snapshot handing the publish jobs the driver objects as they were
\* before readSensors() of the same pass.
Snapshot_Stale(before, after) == before

\* The driver objects the publish jobs of a pass of loop() read: the global
\* objects as the sample job, which comes first in the pass, has left them.
Snapshot(before, after) == after

\* One pass of loop().
Loop ==
    /\ pc = "loop"
    /\ \E linked \in Answers(env), connected \in Answers(env),
          in \in Inputs(enabled, Transducers(env)), step \in {1} :
        LET a == IF ~wifi
                 THEN reconnectWiFi(wifi, lastWiFiAttempt, now, linked)
                 ELSE [wifi |-> wifi, lastWiFiAttempt |-> lastWiFiAttempt]
            b == IF ~mqtt
                 THEN reconnectMQTT(a.wifi, mqtt, lastMQTTAttempt,
                                    mqttReconnectDelay, now, connected)
                 ELSE [mqtt |-> mqtt, lastMQTTAttempt |-> lastMQTTAttempt,
                       mqttReconnectDelay |-> mqttReconnectDelay]
            currentMillis == now
            doRead    == Due(currentMillis, lastSensorRead, SENSOR_READ_INTERVAL)
            doPublish == Due(currentMillis, lastSensorPublish, SENSOR_PUBLISH_INTERVAL)
            doHealth  == Due(currentMillis, lastHealthMsg, HEALTH_MSG_INTERVAL)
            rs == readSensors(sensors, enabled, in)
            ss == IF doRead THEN [k \in Kinds |-> rs[k].d] ELSE sensors
            seen == Snapshot(sensors, ss)
        IN  /\ wifi' = a.wifi
            /\ lastWiFiAttempt' = a.lastWiFiAttempt
            /\ mqtt' = b.mqtt
            /\ lastMQTTAttempt' = b.lastMQTTAttempt
            /\ mqttReconnectDelay' = b.mqttReconnectDelay
            /\ lastSensorRead' = IF doRead THEN currentMillis ELSE lastSensorRead
            /\ sensors' = ss
            /\ attempts' = IF doRead THEN Recorded(attempts, rs, in) ELSE attempts
            /\ lastSensorPublish' = IF doPublish THEN currentMillis ELSE lastSensorPublish
            /\ lastHealthMsg' = IF doHealth THEN currentMillis ELSE lastHealthMsg
            /\ sent' = (IF doPublish THEN publishSensorData(b.mqtt, seen, enabled)
                                     ELSE <<>>)
                       \o (IF doHealth THEN publishHealthMessage(b.mqtt, seen, enabled)
                                       ELSE <<>>)
            /\ conn' = [wifi |-> a.wifi, mqtt |-> b.mqtt]
            /\ crossed' = (IF "publish" \in fired THEN {} ELSE crossed)
                             \cup {c \in Channels :
                                      /\ ~hasValidMajority(FilterOf(sensors, c))
                                      /\ hasValidMajority(FilterOf(ss, c))}
            /\ firings' = IF doPublish
                          THEN Latest(Append(firings, IF b.mqtt THEN "sent"
                                                               ELSE "skipped"))
                          ELSE firings
            /\ fired' = {j \in {"read", "publish", "health"} :
                            \/ j = "read" /\ doRead
                            \/ j = "publish" /\ doPublish
                            \/ j = "health" /\ doHealth}
            /\ cadence' =
                 [j \in Jobs |->
                    LET do   == IF j = "read" THEN doRead
                                ELSE IF j = "publish" THEN doPublish ELSE doHealth
                        last == IF j = "read" THEN lastSensorRead
                                ELSE IF j = "publish" THEN lastSensorPublish
                                ELSE lastHealthMsg
                    IN  IF do
                        THEN [since |-> step, gap |-> cadence[j].since, prev |-> last]
                        ELSE [cadence[j] EXCEPT !.since = Min(@ + step, ClockMod)]]
            /\ now' = (now + step) % ClockMod
    /\ UNCHANGED <<pc, env, enabled>>
    /\ UNCHANGED <<filterVars, driverVars, watchdogVars>>

\* The access point goes away.
LinkLost ==
    /\ pc = "loop" /\ env = "outages" /\ wifi
    /\ wifi' = FALSE
    /\ UNCHANGED <<pc, env, enabled, sensors, mqtt, lastSensorRead, lastSensorPublish,
                   lastHealthMsg, lastWiFiAttempt, lastMQTTAttempt,
                   mqttReconnectDelay, fired, conn, crossed, firings, sent,
                   attempts, cadence, now>>
    /\ UNCHANGED <<filterVars, driverVars, watchdogVars>>

\* The WiFi stack re-associates by itself.
LinkBack ==
    /\ pc = "loop" /\ env = "outages" /\ ~wifi
    /\ wifi' = TRUE
    /\ UNCHANGED <<pc, env, enabled, sensors, mqtt, lastSensorRead, lastSensorPublish,
                   lastHealthMsg, lastWiFiAttempt, lastMQTTAttempt,
                   mqttReconnectDelay, fired, conn, crossed, firings, sent,
                   attempts, cadence, now>>
    /\ UNCHANGED <<filterVars, driverVars, watchdogVars>>

\* The broker connection is lost.
BrokerLost ==
    /\ pc = "loop" /\ env = "outages" /\ mqtt
    /\ mqtt' = FALSE
    /\ UNCHANGED <<pc, env, enabled, sensors, wifi, lastSensorRead, lastSensorPublish,
                   lastHealthMsg, lastWiFiAttempt, lastMQTTAttempt,
                   mqttReconnectDelay, fired, conn, crossed, firings, sent,
                   attempts, cadence, now>>
    /\ UNCHANGED <<filterVars, driverVars, watchdogVars>>

Next == Setup \/ Loop \/ LinkLost \/ LinkBack \/ BrokerLost

Spec == Init /\ [][Next]_vars

(***************************************************************************)
(* SpecWatchdog: the time one pass of loop() takes, in milliseconds, from  *)
(* esp_task_wdt_reset() at its top to the next one.  Every blocking call   *)
(* takes any time up to its timeout: the echo wait up to HC_SR04_TIMEOUT,  *)
(* the wait for the link up to WiFiAttempts delays, every call into a      *)
(* library (bus transaction, ADC burst, broker connect, transport send,    *)
(* update listener) up to BlockingCallMax.                                 *)
(***************************************************************************)

\* config.h: the watchdog period in seconds, the echo timeout in microseconds.
WATCHDOG_TIMEOUT == 60
HC_SR04_TIMEOUT == 30000

\* main.cpp: reconnectWiFi() waits at most WiFiAttempts times WiFiAttemptDelay
\* milliseconds; loop() ends with delay(LoopDelay).
WiFiAttempts == 10
WiFiAttemptDelay == 500
LoopDelay == 10

\* The longest one call into a library blocks, in milliseconds: the sample
\* period of one second, of which the design requires every blocking point
\* to take a fraction.
BlockingCallMax == 1000

WatchdogPeriod == WATCHDOG_TIMEOUT * 1000

Blocking == {0, BlockingCallMax}

\* reconnectWiFi() waiting without a bound on the attempts.
WiFiWait_Unbounded == {WiFiAttemptDelay * n : n \in 0..(2 * WatchdogPeriod) \div WiFiAttemptDelay}

\* The time the while loop of reconnectWiFi() can take.
WiFiWait == {WiFiAttemptDelay * n : n \in 0..WiFiAttempts}

\* The time read() of a driver can block.
ReadBlocking(kind) ==
    IF kind = "HC-SR04" THEN {0, HC_SR04_TIMEOUT \div 1000}
    ELSE IF kind = "SHT30" THEN {a + b : a \in Blocking, b \in Blocking}
    ELSE Blocking

\* The messages one firing of the publish job can send for a driver.
ChannelsOf(kind) == IF kind = "SHT30" THEN 2 ELSE 1

\* wdt after d more milliseconds, at position at; the timer expires at
\* WatchdogPeriod.
After(w, d, at) ==
    [w EXCEPT !.elapsed = Min(@ + d, WatchdogPeriod), !.at = at]

WatchdogInit ==
    /\ \E k \in Kinds : wdt = [at |-> "reset", elapsed |-> 0, driver |-> k]
    /\ FilterIdle /\ DriverIdle /\ FirmwareIdle /\ now = 0

WdtFrame == UNCHANGED <<filterVars, driverVars, firmwareVars, now>>

\* esp_task_wdt_reset()
WdtReset ==
    /\ wdt.at = "reset"
    /\ wdt' = [wdt EXCEPT !.elapsed = 0, !.at = "ota"]
    /\ WdtFrame

\* ArduinoOTA.handle()
WdtOTA ==
    /\ wdt.at = "ota"
    /\ \E d \in Blocking : wdt' = After(wdt, d, "wifi")
    /\ WdtFrame

\* reconnectWiFi(), when the link is down: WiFi.begin and the wait.
WdtWiFi ==
    /\ wdt.at = "wifi"
    /\ \E c \in Blocking, d \in WiFiWait : wdt' = After(wdt, c + d, "mqtt")
    /\ WdtFrame

\* reconnectMQTT() or mqttClient.loop()
WdtMQTT ==
    /\ wdt.at = "mqtt"
    /\ \E d \in Blocking : wdt' = After(wdt, d, "read")
    /\ WdtFrame

\* readSensors(), when due
WdtRead ==
    /\ wdt.at = "read"
    /\ \E d \in ReadBlocking(wdt.driver) : wdt' = After(wdt, d, "publish")
    /\ WdtFrame

\* publishSensorData(), when due
WdtPublish ==
    /\ wdt.at = "publish"
    /\ \E n \in 0..ChannelsOf(wdt.driver) :
          wdt' = After(wdt, n * BlockingCallMax, "health")
    /\ WdtFrame

\* publishHealthMessage(), when due
WdtHealth ==
    /\ wdt.at = "health"
    /\ \E d \in Blocking : wdt' = After(wdt, d, "delay")
    /\ WdtFrame

\* delay(10), and loop() is called again
WdtDelay ==
    /\ wdt.at = "delay"
    /\ wdt' = After(wdt, LoopDelay, "reset")
    /\ WdtFrame

WatchdogNext ==
    WdtReset \/ WdtOTA \/ WdtWiFi \/ WdtMQTT \/ WdtRead \/ WdtPublish
        \/ WdtHealth \/ WdtDelay

SpecWatchdog == WatchdogInit /\ [][WatchdogNext]_vars

(***************************************************************************)
(* SpecStamp: the time stamp of the base class and its callers.  A driver  *)
(* derived from SensorBase calls the protected markSuccessfulRead() and    *)
(* markFailedRead() in any order while the millisecond counter advances    *)
(* and wraps, and a caller asks isDataFresh(maxAgeMs), for every maxAgeMs  *)
(* of the counter's width, and getTimeSinceLastSuccess().  call records    *)
(* the last step: for isDataFresh, ok is the answer and in is <<maxAgeMs>>;*)
(* for getTimeSinceLastSuccess, in is <<the answer>>.                      *)
(***************************************************************************)

StampInit ==
    /\ drv \in {SHT30Sensor, HC_SR04Sensor, PHSensor}
    /\ now = 0
    /\ call = NoCall
    /\ sinceOk = -1
    /\ FilterIdle /\ FirmwareIdle /\ WatchdogIdle

StampMark ==
    /\ drv' = markSuccessfulRead(drv, now)
    /\ call' = [op |-> "markSuccessfulRead", ok |-> TRUE, in |-> <<>>]
    /\ UNCHANGED <<now, sinceOk>>
    /\ UNCHANGED <<filterVars, firmwareVars, watchdogVars>>

StampFail ==
    /\ drv' = markFailedRead(drv)
    /\ call' = [op |-> "markFailedRead", ok |-> FALSE, in |-> <<>>]
    /\ UNCHANGED <<now, sinceOk>>
    /\ UNCHANGED <<filterVars, firmwareVars, watchdogVars>>

\* One millisecond passes.
StampTick ==
    /\ now' = (now + 1) % ClockMod
    /\ call' = [op |-> "tick", ok |-> FALSE, in |-> <<>>]
    /\ UNCHANGED <<drv, sinceOk>>
    /\ UNCHANGED <<filterVars, firmwareVars, watchdogVars>>

StampFresh ==
    /\ \E maxAgeMs \in 0..(ClockMod - 1) :
        call' = [op |-> "isDataFresh", ok |-> isDataFresh(drv, maxAgeMs, now),
                 in |-> <<maxAgeMs>>]
    /\ UNCHANGED <<drv, now, sinceOk>>
    /\ UNCHANGED <<filterVars, firmwareVars, watchdogVars>>

StampSince ==
    /\ call' = [op |-> "getTimeSinceLastSuccess", ok |-> FALSE,
                in |-> <<getTimeSinceLastSuccess(drv, now)>>]
    /\ UNCHANGED <<drv, now, sinceOk>>
    /\ UNCHANGED <<filterVars, firmwareVars, watchdogVars>>

StampNext == StampMark \/ StampFail \/ StampTick \/ StampFresh \/ StampSince

SpecStamp == StampInit /\ [][StampNext]_vars

(***************************************************************************)
(* SpecConvert: the conversion of the pH driver applied to every voltage   *)
(* of the ADC's range, 0 to 3.43 V, in steps of 10 mV.  call records the   *)
(* last application: in is <<voltage_mV, pH>>, both in hundredths.         *)
(***************************************************************************)

\* Number of 10 mV steps in the range of voltages.
VoltageSteps == 343

Voltages == {1000 * n : n \in 0..VoltageSteps}

ConvertInit ==
    /\ call = NoCall
    /\ drv = <<>> /\ sinceOk = -1 /\ now = 0
    /\ FilterIdle /\ FirmwareIdle /\ WatchdogIdle

ConvertApply ==
    /\ \E voltage_mV \in Voltages :
        call' = [op |-> "readPHFromVoltage", ok |-> TRUE,
                 in |-> <<voltage_mV, readPHFromVoltage(voltage_mV)>>]
    /\ UNCHANGED <<drv, now, sinceOk>>
    /\ UNCHANGED <<filterVars, firmwareVars, watchdogVars>>

ConvertNext == ConvertApply

SpecConvert == ConvertInit /\ [][ConvertNext]_vars

(***************************************************************************)
(* Properties of the filter (SpecFilter)                                   *)
(***************************************************************************)

RECURSIVE SumOver(_, _)
\* Sum of buffer[i] over the slots i of S that are marked valid.
SumOver(f, S) ==
    IF S = {} THEN 0
    ELSE LET i == CHOOSE x \in S : TRUE
         IN  (IF f.validBuffer[i] THEN f.buffer[i] ELSE 0) + SumOver(f, S \ {i})

SumValid(f) == SumOver(f, DOMAIN f.buffer)

NumValid(f) == Cardinality({i \in DOMAIN f.buffer : f.validBuffer[i]})

Abs(x) == IF x < 0 THEN -x ELSE x

\* The filter has wrapped: it is full and the cursor is past slot 0 again.
Wrapped(f) == isFull(f) /\ f.index # 0

\* C3: hasValidMajority() is true iff the window is non-empty and strictly
\* more than half of its count entries are valid slots; on the 15-slot filter,
\* 7 successes followed by 8 failures give false.
C3_MajorityGate ==
    /\ hasValidMajority(ma) <=> (ma.count > 0 /\ 2 * NumValid(ma) > ma.count)
    /\ (SizeOf(ma) = 15 /\ scen = [adds |-> 7, fails |-> 8]) => ~hasValidMajority(ma)

C3_Witness ==
    SizeOf(ma) = 15 /\ scen = [adds |-> 7, fails |-> 8] /\ ma.validCount = 7

\* C4: after any sequence of add, addFailure and reset, sum is the sum of
\* buffer[i] over exactly the slots whose validBuffer[i] is true.
C4_SumOfValidSlots == ma.sum = SumValid(ma)

C4_Witness ==
    Wrapped(ma) /\ SizeOf(ma) > 1 /\ ma.validCount > 0 /\ ma.validCount < ma.count

\* C5: validCount <= count <= SIZE after any sequence of calls.
C5_CountOrder == ma.validCount <= ma.count /\ ma.count <= SizeOf(ma)

C5_Witness == Wrapped(ma) /\ ma.validCount = SizeOf(ma) /\ SizeOf(ma) > 1

C23_EvictBeforeWrite ==
    [][ref' # <<>> =>
          LET wasValid == ma.validBuffer[ma.index]
              old      == IF wasValid THEN ma.buffer[ma.index] ELSE 0
              new      == ref'[Len(ref')]
          IN  /\ new.ok =>
                    /\ ma'.validCount = (IF wasValid THEN ma.validCount
                                                     ELSE ma.validCount + 1)
                    /\ ma'.sum = ma.sum - old + new.v
              /\ ~new.ok =>
                    /\ ma'.validCount = (IF wasValid THEN ma.validCount - 1
                                                     ELSE ma.validCount)
                    /\ ma'.sum = ma.sum - old]_vars

\* An addFailure() has just evicted a valid sample from a wrapped window
\* that still holds valid samples.
C23_Witness ==
    /\ Wrapped(ma) /\ evicted = <<[ok |-> TRUE, v |-> 7]>>
    /\ ~ref[Len(ref)].ok /\ ma.validCount > 0

\* C24: for a window of size N and any prior history of add/addFailure
\* calls, after N consecutive successful add(v) calls with the same value v,
\* getAverage() == v, validCount == N and isFull() is true.
C24_SameValueFillsWindow ==
    (/\ Len(ref) = SizeOf(ma)
     /\ \A i \in 1..Len(ref) : ref[i].ok /\ ref[i].v = ref[1].v) =>
        /\ getAverage(ma) = ref[1].v
        /\ ma.validCount = SizeOf(ma)
        /\ isFull(ma)

\* The last SIZE calls were add(2), and the last of them evicted an older
\* add(7).
C24_Witness ==
    /\ SizeOf(ma) = FilterSize /\ Len(ref) = SizeOf(ma)
    /\ \A i \in 1..Len(ref) : ref[i] = [ok |-> TRUE, v |-> 2]
    /\ evicted = <<[ok |-> TRUE, v |-> 7]>>

RECURSIVE Feed(_, _)
\* The filter f after the calls of the sequence a, oldest first.
Feed(f, a) ==
    IF a = <<>> THEN f
    ELSE LET e == a[Len(a)]
         IN  addReading(Feed(f, SubSeq(a, 1, Len(a) - 1)), e.v, e.ok)

\* C33: reset() called in any reachable filter state restores exactly the
\* post-construction state (cursor 0, count 0, sum 0, validCount 0, every
\* slot value 0 and invalid), so any sequence of calls after reset() yields
\* the same observable results as the same sequence on a freshly constructed
\* filter.
C33_ResetIsConstruction ==
    /\ ref = <<>> =>
          /\ ma = MovingAverage(SizeOf(ma))
          /\ ma.index = 0 /\ ma.count = 0 /\ ma.sum = 0 /\ ma.validCount = 0
          /\ \A i \in DOMAIN ma.buffer : ma.buffer[i] = 0 /\ ~ma.validBuffer[i]
          /\ getAverage(ma) = 0 /\ ~isFull(ma) /\ ~hasValidMajority(ma)
    /\ ma.count < SizeOf(ma) => ma = Feed(MovingAverage(SizeOf(ma)), ref)

\* reset() has discarded several valid samples of a filter of several
\* slots, and add() and addFailure() have been called since.
C33_Witness ==
    /\ wiped > 1 /\ SizeOf(ma) = FilterSize
    /\ Len(ref) = 2 /\ ref[1].ok /\ ~ref[2].ok /\ ma.count = 2

(***************************************************************************)
(* Properties of the drivers (SpecDriver)                                  *)
(***************************************************************************)

InRangeSlots(f, lo, hi) ==
    \A i \in DOMAIN f.buffer : f.validBuffer[i] => (lo <= f.buffer[i] /\ f.buffer[i] <= hi)

\* C7: every read(), on every path, records exactly one entry (one add or
\* one addFailure) in each filter the driver owns.
C7_OneEntryPerRead ==
    call.op = "read" => \A n \in DOMAIN drv.calls : Len(drv.calls[n]) = 1

\* C8: every slot marked valid in a driver's filter holds a value inside the
\* channel's configured range.
C8_ValidSlotsInRange ==
    IF drv.kind = "SHT30"
    THEN /\ InRangeSlots(drv.tempAvg, TEMP_MIN, TEMP_MAX)
         /\ InRangeSlots(drv.humidityAvg, HUMIDITY_MIN, HUMIDITY_MAX)
    ELSE IF drv.kind = "HC-SR04"
    THEN InRangeSlots(drv.movingAverage[1], MIN_WATER_LEVEL_CM, MAX_WATER_LEVEL_CM)
    ELSE InRangeSlots(drv.movingAverage[1], PH_MIN, PH_MAX)

\* An echo that converts to a level outside the range has just been refused
\* by a driver whose wrapped window holds valid samples.
C8_Witness ==
    /\ drv.kind = "HC-SR04" /\ drv.initialized
    /\ call.op = "read" /\ ~call.ok
    /\ drv.lastRawDistance > 0
    /\ Wrapped(drv.movingAverage[1]) /\ drv.movingAverage[1].validCount > 0

\* C9: every read() that returns ok sets lastSuccessfulReadTime to the
\* current value of the millisecond counter.
C9_OkReadStampsTime ==
    (call.op = "read" /\ call.ok) => drv.lastSuccessfulReadTime = now

\* C10: isDataFresh(maxAge) is true iff some read() returned ok at a time t
\* with now - t <= maxAge and the counter has not rolled over since t.
C10_Freshness ==
    \A maxAge \in 0..MaxAge :
        isDataFresh(drv, maxAge, now)
            <=> (sinceOk # -1 /\ sinceOk <= now /\ sinceOk <= maxAge)


\* C11: the time stamp of the last success changes only in a step in which
\* read() returned ok; a read() that returns not-ok leaves it as it was.
C11_StampOnlyOnSuccess ==
    [][drv'.lastSuccessfulReadTime # drv.lastSuccessfulReadTime
          => (call'.op = "read" /\ call'.ok)]_vars

\* A read() has just failed on a driver that had a successful read() some
\* milliseconds before.
C11_Witness == call.op = "read" /\ ~call.ok /\ sinceOk > 0 /\ now > 0

\* The slot of filter f the last call wrote.
LastSlot(f) == (f.index + SizeOf(f) - 1) % SizeOf(f)

\* Filter f has just recorded value v as valid.
Added(f, v) == f.validBuffer[LastSlot(f)] /\ f.buffer[LastSlot(f)] = v

\* A value that is NaN or outside [lo, hi].
Unusable(x, lo, hi) == x.nan \/ x.v < lo \/ x.v > hi

\* C12: in one read() of the initialized temperature and humidity driver,
\* if either value is NaN or out of its range, addFailure() is recorded on
\* both filters and read() returns not-ok; otherwise add(value) is recorded
\* on each filter and read() returns ok.
C12_BothOrNeither ==
    (drv.kind = "SHT30" /\ call.op = "read" /\ drv.initialized) =>
        IF \/ Unusable(call.in[1], TEMP_MIN, TEMP_MAX)
           \/ Unusable(call.in[2], HUMIDITY_MIN, HUMIDITY_MAX)
        THEN /\ ~call.ok
             /\ drv.calls = [tempAvg |-> <<"addFailure">>, humidityAvg |-> <<"addFailure">>]
             /\ ~drv.tempAvg.validBuffer[LastSlot(drv.tempAvg)]
             /\ ~drv.humidityAvg.validBuffer[LastSlot(drv.humidityAvg)]
        ELSE /\ call.ok
             /\ drv.calls = [tempAvg |-> <<"add">>, humidityAvg |-> <<"add">>]
             /\ Added(drv.tempAvg, call.in[1].v)
             /\ Added(drv.humidityAvg, call.in[2].v)

\* The humidity alone was unusable (NaN beside a temperature in range) in a
\* read() of a driver whose windows hold valid samples.
C12_Witness ==
    /\ drv.kind = "SHT30" /\ call.op = "read" /\ drv.initialized
    /\ call.in = <<Num(2000), NaN>>
    /\ drv.tempAvg.validCount > 0 /\ drv.humidityAvg.validCount > 0

\* C16: read() called on a driver that is not initialized returns not-ok
\* and records one failure in each filter of the driver.
C16_UninitializedReadRecordsFailure ==
    (call.op = "read" /\ ~drv.initialized) =>
        /\ ~call.ok
        /\ \A n \in DOMAIN drv.calls : drv.calls[n] = <<"addFailure">>

\* The window config.h configures for the channels of a driver.
ConfiguredWindow(kind) ==
    IF kind = "SHT30" THEN TEMP_HUMIDITY_WINDOW
    ELSE IF kind = "HC-SR04" THEN WATER_LEVEL_WINDOW ELSE PH_WINDOW

\* The filters a driver object owns.
FiltersOf(d) ==
    IF d.kind = "SHT30" THEN {d.tempAvg, d.humidityAvg} ELSE {d.movingAverage[1]}

\* C18: every driver's filter has the capacity configured for its channel
\* (TEMP_HUMIDITY_WINDOW, WATER_LEVEL_WINDOW, PH_WINDOW), which is where its
\* count saturates.
C18_ConfiguredCapacity ==
    \A f \in FiltersOf(drv) :
        /\ SizeOf(f) = Scaled(ConfiguredWindow(drv.kind))
        /\ isFull(f) => f.count = Scaled(ConfiguredWindow(drv.kind))

\* C21: begin() sets initialized exactly when it returns ok.  The
\* temperature and humidity driver's begin() returns not-ok and leaves
\* initialized false when the bus device cannot be opened; the ultrasonic
\* and pH drivers' begin() return ok and set initialized even when the first
\* probe reading fails or is out of range.
C21_BeginSetsInitialized ==
    call.op = "begin" =>
        /\ drv.initialized = call.ok
        /\ drv.kind = "SHT30" => call.ok = call.in[1]
        /\ drv.kind \in {"HC-SR04", "pH"} => call.ok

\* The ultrasonic driver's begin() has just returned ok although its test
\* echo timed out.
C21_Witness ==
    /\ drv.kind = "HC-SR04" /\ call.op = "begin" /\ call.in = <<FALSE>>
    /\ call.ok /\ drv.initialized

\* C26: for an initialized ultrasonic driver, read() returns ok and adds
\* the level to the filter iff the echo duration is not zero and the level,
\* CONTAINER_HEIGHT_CM minus the distance, lies in [MIN_WATER_LEVEL_CM,
\* MAX_WATER_LEVEL_CM], bounds included; otherwise it records addFailure()
\* and returns not-ok.  A distance of 5 mm is a level of 37.5 cm and a
\* failure; a distance of 100 mm is a level of 28.0 cm and a valid sample.
C26_LevelGate ==
    (drv.kind = "HC-SR04" /\ call.op = "read" /\ drv.initialized) =>
        LET t     == call.in[1]
            level == CONTAINER_HEIGHT_CM - ((t * 343) \div 200)
            good  == t # 0 /\ MIN_WATER_LEVEL_CM <= level /\ level <= MAX_WATER_LEVEL_CM
            f     == drv.movingAverage[1]
        IN  /\ call.ok = good
            /\ good => (drv.calls["movingAverage"] = <<"add">> /\ Added(f, level))
            /\ ~good => /\ drv.calls["movingAverage"] = <<"addFailure">>
                        /\ ~f.validBuffer[LastSlot(f)]
            /\ t = 29 => (level \in 3750..3751 /\ ~call.ok)
            /\ t = 583 => (level \in 2800..2801 /\ call.ok)

\* An echo of 30 mm, a level of exactly MAX_WATER_LEVEL_CM, has just been
\* accepted by a driver whose window already holds a failure.
C26_Witness ==
    /\ drv.kind = "HC-SR04" /\ call.op = "read" /\ drv.initialized
    /\ call.in = <<175>> /\ call.ok
    /\ Added(drv.movingAverage[1], MAX_WATER_LEVEL_CM)
    /\ drv.movingAverage[1].validCount < drv.movingAverage[1].count

\* C28: immediately after any read() that returns ok, the driver's cached
\* latest value (getWaterLevel, getPH, getTemperature, getHumidity) equals
\* the current getAverage() of the corresponding filter, which already
\* includes the sample just added.
C28_CacheIsAverage ==
    (call.op = "read" /\ call.ok) =>
        IF drv.kind = "SHT30"
        THEN /\ getTemperature(drv) = getAverage(drv.tempAvg)
             /\ getHumidity(drv) = getAverage(drv.humidityAvg)
             /\ drv.tempAvg.validBuffer[LastSlot(drv.tempAvg)]
             /\ drv.humidityAvg.validBuffer[LastSlot(drv.humidityAvg)]
        ELSE IF drv.kind = "HC-SR04"
        THEN /\ getWaterLevel(drv) = getAverage(drv.movingAverage[1])
             /\ drv.movingAverage[1].validBuffer[LastSlot(drv.movingAverage[1])]
        ELSE /\ getPH(drv) = getAverage(drv.movingAverage[1])
             /\ drv.movingAverage[1].validBuffer[LastSlot(drv.movingAverage[1])]

\* The pH driver has just returned ok and caches an average that differs
\* from the sample it has just added.
C28_Witness ==
    /\ drv.kind = "pH" /\ call.op = "read" /\ call.ok
    /\ getPH(drv) # drv.movingAverage[1].buffer[LastSlot(drv.movingAverage[1])]

\* C34: for every driver, after any call of read(), isLastReadSuccess()
\* equals the value that read() returned (true after an ok read, false after
\* a not-ok read, including the uninitialized path), and only read() changes
\* it.
C34_FlagIsLastResult ==
    [][IF call'.op = "read"
       THEN isLastReadSuccess(drv') = call'.ok
       ELSE isLastReadSuccess(drv') = isLastReadSuccess(drv)]_vars

\* A read() has just returned not-ok on a driver whose previous read()
\* returned ok: the newest slot of the window but one is valid.
C34_Witness ==
    /\ call.op = "read" /\ ~call.ok /\ ~isLastReadSuccess(drv)
    /\ \E f \in FiltersOf(drv) :
          /\ f.count > 1
          /\ f.validBuffer[(f.index + SizeOf(f) - 2) % SizeOf(f)]

(***************************************************************************)
(* Properties of the firmware (Spec)                                       *)
(***************************************************************************)

Decimals(c) == IF c = "waterLevel" THEN 1 ELSE 2

\* The messages of sent that carry a channel's reading.
Readings == {i \in 1..Len(sent) : sent[i].deviceType \in Channels}

\* The last k outcomes of the sequence a.
LastK(a, k) == SubSeq(a, Len(a) - k + 1, Len(a))

RECURSIVE SumOk(_)
SumOk(a) ==
    IF a = <<>> THEN 0 ELSE (IF Head(a).ok THEN Head(a).v ELSE 0) + SumOk(Tail(a))

NumOk(a) == Cardinality({i \in 1..Len(a) : a[i].ok})

\* C1: a reading is handed to the transport only for a channel whose driver
\* is initialized and whose gate holds: its window is not empty and strictly
\* more than half of it is valid.
C1_PublishGate ==
    \A i \in Readings :
        LET c == sent[i].deviceType
            f == FilterOf(sensors, c)
        IN  /\ sensors[KindOf(c)].initialized
            /\ hasValidMajority(f)
            /\ f.count > 0 /\ 2 * NumValid(f) > f.count

\* The publish job has just run with the broker connected and has skipped
\* a channel whose window has entries, half of them or more failed.
C1_Witness ==
    /\ "publish" \in fired /\ mqtt
    /\ \E c \in Channels :
        /\ KindOf(c) \in enabled /\ sensors[KindOf(c)].initialized
        /\ FilterOf(sensors, c).count > 0
        /\ 2 * NumValid(FilterOf(sensors, c)) <= FilterOf(sensors, c).count
        /\ \A i \in Readings : sent[i].deviceType # c

\* C2: the value emitted for a channel is the average of the valid samples
\* among the last k read attempts of the channel, for some k of at most N.
C2_PublishedIsWindowAverage ==
    \A i \in Readings :
        LET c == sent[i].deviceType IN
        \E k \in 1..Window :
            /\ k <= Len(attempts[c])
            /\ NumOk(LastK(attempts[c], k)) > 0
            /\ sent[i].value =
                 FormatValue(DivT(SumOk(LastK(attempts[c], k)),
                                  NumOk(LastK(attempts[c], k))), Decimals(c))


\* The channels of the build whose driver is initialized and whose gate
\* holds.
GatedIn ==
    {c \in Channels : /\ KindOf(c) \in enabled
                      /\ sensors[KindOf(c)].initialized
                      /\ hasValidMajority(FilterOf(sensors, c))}

\* The messages of sent that carry a reading of channel c.
ReadingsOf(c) == {i \in Readings : sent[i].deviceType = c}

\* The value a driver caches for channel c.
CachedValue(c) ==
    IF c = "temperature" THEN getTemperature(sensors["SHT30"])
    ELSE IF c = "humidity" THEN getHumidity(sensors["SHT30"])
    ELSE IF c = "waterLevel" THEN getWaterLevel(sensors["HC-SR04"])
    ELSE getPH(sensors["pH"])

\* C13 as stated: once the gate of a channel has gone from false to true,
\* the next firing of the publish job emits a message for the channel.
C13_NextFiringEmits ==
    "publish" \in fired => \A c \in crossed : ReadingsOf(c) # {}

\* C13: a firing of the publish job that finds the broker connected emits a
\* message for every channel whose driver is initialized and whose gate
\* holds at that firing.
C13_GatedInIsEmitted ==
    ("publish" \in fired /\ conn.mqtt) => \A c \in GatedIn : ReadingsOf(c) # {}

\* The gate of a channel went from false to true since the firing before,
\* and this firing, with the broker connected, emits the channel.
C13_Witness ==
    /\ "publish" \in fired /\ conn.mqtt
    /\ \E c \in crossed : c \in GatedIn /\ ReadingsOf(c) # {}

C15_NoBacklog ==
    /\ \A c \in Channels : Cardinality(ReadingsOf(c)) <= 1
    /\ \A i \in Readings :
          sent[i].value = FormatValue(CachedValue(sent[i].deviceType),
                                      Decimals(sent[i].deviceType))
    /\ ("publish" \in fired /\ conn.mqtt) =>
          \A c \in GatedIn : Cardinality(ReadingsOf(c)) = 1

\* The first firing after an outage: the firing before was skipped, this
\* one emits a channel.
C15_Witness ==
    /\ "publish" \in fired /\ conn.mqtt
    /\ firings = <<"skipped", "sent">>
    /\ \E c \in GatedIn : Cardinality(ReadingsOf(c)) = 1

\* The health messages of sent.
Healths == {i \in 1..Len(sent) : sent[i].deviceType = "health"}

\* C20: a health message reports every channel of the build "ok" iff its
\* driver is initialized and "error" otherwise, whatever its gate; it is
\* handed to the transport only when the broker is connected.
C20_HealthStatus ==
    /\ \A i \in Healths :
          /\ conn.mqtt
          /\ \A c \in Channels :
                KindOf(c) \in enabled =>
                    sent[i][c] = IF sensors[KindOf(c)].initialized
                                 THEN "ok" ELSE "error"
    /\ ("health" \in fired /\ ~conn.mqtt) => Healths = {}

\* A health message reports "ok" for a channel whose window holds entries
\* and whose gate is false.
C20_Witness ==
    \E i \in Healths : \E c \in Channels :
        /\ KindOf(c) \in enabled /\ sent[i][c] = "ok"
        /\ FilterOf(sensors, c).count > 0
        /\ ~hasValidMajority(FilterOf(sensors, c))


(***************************************************************************)
(* The filter against its reference (SpecFilter)                           *)
(***************************************************************************)

\* The slot of ma that holds the j-th oldest sample of the window.
SlotOf(f, j) == (f.index + SizeOf(f) - f.count + j - 1) % SizeOf(f)

\* C19: after every call, count, validCount, sum and getAverage() of the
\* filter are the length, the number of valid entries, their sum and their
\* mean in the sequence of the last min(k, SIZE) samples recorded, and the
\* slots hold that sequence in order from the oldest: a call on a full
\* window evicts the oldest sample.
C19_MatchesReference ==
    /\ ma.count = Len(ref)
    /\ ma.validCount = NumOk(ref)
    /\ ma.sum = SumOk(ref)
    /\ getAverage(ma) = IF NumOk(ref) > 0 THEN DivT(SumOk(ref), NumOk(ref)) ELSE 0
    /\ \A j \in 1..Len(ref) :
          /\ ma.validBuffer[SlotOf(ma, j)] = ref[j].ok
          /\ ref[j].ok => ma.buffer[SlotOf(ma, j)] = ref[j].v

\* A full window of several slots has evicted samples and holds valid and
\* failed entries of different values.
C19_Witness ==
    /\ Wrapped(ma) /\ SizeOf(ma) > 1
    /\ NumOk(ref) > 1 /\ NumOk(ref) < Len(ref)
    /\ \E i, j \in 1..Len(ref) : ref[i].ok /\ ref[j].ok /\ ref[i].v # ref[j].v

\* C29: the sample, publish and health jobs are independent.  In each pass
\* of loop() a job fires iff now minus its own last-fired time stamp is at
\* least its own period, and on firing it sets only its own time stamp to
\* now; no job's firing, skipping or outcome changes another job's time
\* stamp, so consecutive firings of one job are at least one period apart.
C29_IndependentJobs ==
    [][IF pc = "loop" /\ now' # now
       THEN /\ ("read" \in fired')
                  <=> (now - lastSensorRead + ClockMod) % ClockMod >= SENSOR_READ_INTERVAL
            /\ ("publish" \in fired')
                  <=> (now - lastSensorPublish + ClockMod) % ClockMod
                          >= SENSOR_PUBLISH_INTERVAL
            /\ ("health" \in fired')
                  <=> (now - lastHealthMsg + ClockMod) % ClockMod >= HEALTH_MSG_INTERVAL
            /\ lastSensorRead' = (IF "read" \in fired' THEN now ELSE lastSensorRead)
            /\ lastSensorPublish' = (IF "publish" \in fired' THEN now
                                                              ELSE lastSensorPublish)
            /\ lastHealthMsg' = (IF "health" \in fired' THEN now ELSE lastHealthMsg)
       ELSE UNCHANGED <<lastSensorRead, lastSensorPublish, lastHealthMsg>>]_vars

\* A pass in which the sample job and the publish job fired, the publish
\* was skipped because the broker was down, and the health job, last fired
\* at another time, did not fire.
C29_Witness ==
    /\ pc = "loop" /\ fired = {"read", "publish"}
    /\ ~conn.mqtt /\ firings # <<>> /\ firings[Len(firings)] = "skipped"
    /\ lastSensorRead = lastSensorPublish /\ lastHealthMsg # lastSensorPublish
    /\ lastHealthMsg # 0

\* C30: every firing of the sample job calls read() on every enabled
\* driver, so that every enabled channel's window receives one new entry
\* per firing, and hands nothing to the transport.
C30_EveryFiringReadsEveryDriver ==
    "read" \in fired =>
        \A k \in enabled :
            \A n \in DOMAIN sensors[k].calls : Len(sensors[k].calls[n]) = 1

\* C31: in a pass of loop() in which the read of the temperature and
\* humidity driver fails (for instance the humidity is NaN while the
\* temperature is fine), neither temperature nor humidity is published in
\* that pass.
C31_FailedReadNotPublished ==
    (/\ "read" \in fired /\ "SHT30" \in enabled
     /\ sensors["SHT30"].initialized /\ ~isLastReadSuccess(sensors["SHT30"])) =>
        ReadingsOf("temperature") = {} /\ ReadingsOf("humidity") = {}

\* C35: the temperature filter and the humidity filter of the temperature
\* and humidity driver move in lockstep: in every reachable state they have
\* the same cursor, the same count, the same validCount and the same
\* per-slot validity flags, so hasValidTemperatureMajority() ==
\* hasValidHumidityMajority() always, and the two channels are either both
\* published or both skipped by the gate in any publish firing.
C35_Lockstep ==
    LET d == sensors["SHT30"] IN
    /\ d.tempAvg.index = d.humidityAvg.index
    /\ d.tempAvg.count = d.humidityAvg.count
    /\ d.tempAvg.validCount = d.humidityAvg.validCount
    /\ d.tempAvg.validBuffer = d.humidityAvg.validBuffer
    /\ hasValidTemperatureMajority(d) = hasValidHumidityMajority(d)
    /\ (ReadingsOf("temperature") = {}) <=> (ReadingsOf("humidity") = {})

\* A publish firing has handed over both channels from wrapped windows that
\* hold a failure.
C35_Witness ==
    /\ "publish" \in fired
    /\ ReadingsOf("temperature") # {} /\ ReadingsOf("humidity") # {}
    /\ Wrapped(sensors["SHT30"].tempAvg)
    /\ sensors["SHT30"].humidityAvg.validCount < sensors["SHT30"].humidityAvg.count

\* The configured valid range of a channel, [lo, hi].
RangeOf(c) ==
    IF c = "temperature" THEN [lo |-> TEMP_MIN, hi |-> TEMP_MAX]
    ELSE IF c = "humidity" THEN [lo |-> HUMIDITY_MIN, hi |-> HUMIDITY_MAX]
    ELSE IF c = "waterLevel" THEN [lo |-> MIN_WATER_LEVEL_CM, hi |-> MAX_WATER_LEVEL_CM]
    ELSE [lo |-> PH_MIN, hi |-> PH_MAX]

\* C36: every value handed to the transport for a channel lies inside that
\* channel's configured valid range; whenever a channel passes the publish
\* gate its cached value has been written by at least one successful read
\* and is not the constructor placeholder.
C36_PublishedInRange ==
    \A i \in Readings :
        LET c == sent[i].deviceType IN
        /\ RangeOf(c).lo <= sent[i].value /\ sent[i].value <= RangeOf(c).hi
        /\ \E j \in 1..Len(attempts[c]) : attempts[c][j].ok
        /\ FilterOf(sensors, c).validCount > 0

\* A water level at the upper end of its range has been handed over from a
\* window that holds a failure.
C36_Witness ==
    \E i \in Readings :
        /\ sent[i].deviceType = "waterLevel" /\ sent[i].value = MAX_WATER_LEVEL_CM
        /\ FilterOf(sensors, "waterLevel").validCount < FilterOf(sensors, "waterLevel").count

\* C39: within a single pass in which both the sample job and the publish
\* job are due, all driver reads complete before the publish job evaluates
\* any gate or value, and no read() occurs between the gate checks and the
\* value reads of one publish firing: the firing sees one snapshot per
\* channel, which includes the sample taken in the same pass.
C39_PublishSeesSameTickSample ==
    ("read" \in fired /\ "publish" \in fired /\ conn.mqtt) =>
        \A c \in Channels :
            LET d == sensors[KindOf(c)]
                f == FilterOf(sensors, c)
            IN  /\ (ReadingsOf(c) # {}) <=>
                      (KindOf(c) \in enabled /\ d.initialized
                         /\ f.count > 0 /\ 2 * NumValid(f) > f.count)
                /\ \A i \in ReadingsOf(c) :
                      sent[i].value = FormatValue(CachedValue(c), Decimals(c))
                /\ (KindOf(c) \in enabled /\ d.initialized) =>
                      /\ attempts[c] # <<>>
                      /\ f.validBuffer[LastSlot(f)] = attempts[c][Len(attempts[c])].ok
                      /\ attempts[c][Len(attempts[c])].ok =>
                            /\ f.buffer[LastSlot(f)] = attempts[c][Len(attempts[c])].v
                            /\ CachedValue(c) = DivT(SumValid(f), NumValid(f))

\* The second read() of a channel and a publish firing fell in one pass,
\* and the value handed over already counts the second sample, which
\* differs from the first.
C39_Witness ==
    /\ "read" \in fired /\ "publish" \in fired
    /\ \E c \in Channels :
          /\ Len(attempts[c]) = 2
          /\ attempts[c][1].ok /\ attempts[c][2].ok
          /\ attempts[c][1].v # attempts[c][2].v
          /\ \E i \in ReadingsOf(c) :
                sent[i].value # FormatValue(attempts[c][1].v, Decimals(c))

\* C32: connectivity progresses from link down to link up with the broker
\* down to link up with the broker up.  A broker connection attempt is made
\* only while the link is up, so the broker-up state is entered only with
\* the link up, never from link down.
C32_BrokerOnlyOverLink ==
    [][(\/ ~mqtt /\ mqtt'
        \/ lastMQTTAttempt' # lastMQTTAttempt
        \/ mqttReconnectDelay' # mqttReconnectDelay) => wifi']_vars

\* The last pass of loop() found the broker down and the reconnect delay
\* elapsed, and made no attempt, because the link was down.
C32_Witness ==
    /\ pc = "loop" /\ "read" \in fired
    /\ conn = [wifi |-> FALSE, mqtt |-> FALSE]
    /\ (now - 1 - lastMQTTAttempt + 2 * ClockMod) % ClockMod >= mqttReconnectDelay

\* C38: the broker reconnect delay always stays within
\* [MQTT_RECONNECT_INITIAL_DELAY, MQTT_RECONNECT_MAX_DELAY]: each failed
\* connection attempt doubles it, capped at the maximum, each successful
\* attempt resets it to the initial value, and no connection attempt is made
\* sooner than the current delay after the previous attempt.
C38_Backoff ==
    [][/\ MQTT_RECONNECT_INITIAL_DELAY <= mqttReconnectDelay'
       /\ mqttReconnectDelay' <= MQTT_RECONNECT_MAX_DELAY
       /\ (~mqtt /\ mqtt') => mqttReconnectDelay' = MQTT_RECONNECT_INITIAL_DELAY
       /\ (~mqtt /\ ~mqtt' /\ lastMQTTAttempt' # lastMQTTAttempt) =>
              mqttReconnectDelay' =
                 (IF 2 * mqttReconnectDelay <= MQTT_RECONNECT_MAX_DELAY
                  THEN 2 * mqttReconnectDelay ELSE MQTT_RECONNECT_MAX_DELAY)
       /\ mqttReconnectDelay' # mqttReconnectDelay =>
              (~mqtt /\ lastMQTTAttempt' # lastMQTTAttempt)
       /\ lastMQTTAttempt' # lastMQTTAttempt =>
              (lastMQTTAttempt' - lastMQTTAttempt + ClockMod) % ClockMod
                  >= mqttReconnectDelay]_vars

\* Failed attempts have driven the delay to its maximum, and the broker
\* is still down with the link up.
C38_Witness ==
    /\ pc = "loop" /\ wifi /\ ~mqtt /\ conn = [wifi |-> TRUE, mqtt |-> FALSE]
    /\ mqttReconnectDelay = MQTT_RECONNECT_MAX_DELAY

\* The period and the time stamp of a periodic job.
PeriodOf(j) ==
    IF j = "read" THEN SENSOR_READ_INTERVAL
    ELSE IF j = "publish" THEN SENSOR_PUBLISH_INTERVAL ELSE HEALTH_MSG_INTERVAL

StampOf(j) ==
    IF j = "read" THEN lastSensorRead
    ELSE IF j = "publish" THEN lastSensorPublish ELSE lastHealthMsg

\* C37: the periodic jobs keep their cadence across rollover of the
\* millisecond counter: elapsed time is the unsigned difference now - last
\* (mod 2^w), so a job whose time stamp is just below the maximum counter
\* value fires again once one period of real time has elapsed after the
\* wrap, neither firing early nor being delayed until the counter catches
\* up.
C37_CadenceAcrossRollover ==
    pc = "loop" =>
        \A j \in Jobs :
            /\ cadence[j].since <= PeriodOf(j)
            /\ cadence[j].gap # -1 => cadence[j].gap >= PeriodOf(j)
            /\ cadence[j].since = (now - StampOf(j) + ClockMod) % ClockMod

\* The health job, last fired at the maximum counter value, has just fired
\* again, one period later, at a counter value below its old time stamp.
C37_Witness ==
    /\ "health" \in fired
    /\ cadence["health"].prev = ClockMod - 1
    /\ lastHealthMsg < cadence["health"].prev
    /\ cadence["health"].gap = HEALTH_MSG_INTERVAL

(***************************************************************************)
(* Properties of the watchdog (SpecWatchdog)                               *)
(***************************************************************************)

C25_RolloverIsStale ==
    now < drv.lastSuccessfulReadTime =>
        /\ \A maxAge \in 0..(ClockMod - 1) : ~isDataFresh(drv, maxAge, now)
        /\ getTimeSinceLastSuccess(drv, now) = 0
        /\ call.op = "isDataFresh" => ~call.ok
        /\ call.op = "getTimeSinceLastSuccess" => call.in = <<0>>

\* The stamp was taken one millisecond before the counter wrapped, the
\* counter reads 1, and isDataFresh has just been asked with the largest
\* maxAge there is.
C25_Witness ==
    /\ drv.lastSuccessfulReadTime = ClockMod - 1 /\ now = 1
    /\ call.op = "isDataFresh" /\ call.in = <<ClockMod - 1>>

(***************************************************************************)
(* Properties of the pH conversion (SpecConvert)                           *)
(***************************************************************************)

====
